---------------------------- MODULE Spec2Model ----------------------------
(***************************************************************************)
(* Model of the release process of bladedancer/test-ci:                   *)
(*   src/scripts/release-process.js  the "ship" flow                      *)
(*   src/unnamed/part_000            the "fetch" flow                     *)
(*                                                                         *)
(* Strings that the code transforms (release names, dist-tag labels) are  *)
(* sequences of one-character strings, so that toLowerCase and the        *)
(* whitespace replacement are computed character by character.  Versions  *)
(* are the integers 1..MaxVersion (the code only compares them with ===), *)
(* and 0 stands for JavaScript's undefined version.                       *)
(***************************************************************************)
EXTENDS Integers, Sequences, FiniteSets, TLC

\* ------------------------------------------------------------------ bounds
MaxVersion == 2
MaxRuns == 2

\* --------------------------------------------------------------- constants
\* The package containing the version name.
versionedPackage == "@bladedancer/mod-abc"
otherPackage == "@bladedancer/mod-xyz"

\* The directories of packages/, in readdir order.
dirs == <<versionedPackage, otherPackage>>
PkgNames == {dirs[i] : i \in 1..Len(dirs)}

Versions == 1..MaxVersion
\* pkg.tags.next of a package without that tag: undefined.
undefined == 0

\* ----------------------------------------------------------------- strings
UpperCase ==
  <<"A","B","C","D","E","F","G","H","I","J","K","L","M",
    "N","O","P","Q","R","S","T","U","V","W","X","Y","Z">>
LowerCase ==
  <<"a","b","c","d","e","f","g","h","i","j","k","l","m",
    "n","o","p","q","r","s","t","u","v","w","x","y","z">>
\* The characters /\s/ matches among those the model uses.
WhiteSpace == {" ", "\t", "\n", "\r", "\f"}

toLowerCaseChar(c) ==
  IF \E i \in 1..Len(UpperCase) : UpperCase[i] = c
  THEN LowerCase[CHOOSE i \in 1..Len(UpperCase) : UpperCase[i] = c]
  ELSE c

\* String.prototype.toLowerCase
toLowerCase(s) == [i \in 1..Len(s) |-> toLowerCaseChar(s[i])]

\* Mutant: whitespace is replaced by a dash.
replaceWhiteSpaceDash(s) == [i \in 1..Len(s) |-> IF s[i] \in WhiteSpace THEN "-" ELSE s[i]]
\* s.replace(/\s/g, '_')
replaceWhiteSpace(s) == [i \in 1..Len(s) |-> IF s[i] \in WhiteSpace THEN "_" ELSE s[i]]

\* Mutant: the label is not lower-cased.
safeTagOfNoLower(tag) == replaceWhiteSpace(tag)
\* const safeTag = tag.toLowerCase().replace(/\s/g, '_');
safeTagOf(tag) == replaceWhiteSpace(toLowerCase(tag))

TagLatest == <<"l","a","t","e","s","t">>
TagNext == <<"n","e","x","t">>

\* ----------------------------------------------------- release-names.json
Alpha == <<"A","l","p","h","a">>
Beta == <<"B","e","t","a">>
Gamma == <<"G","a","m","m","a">>
alpha == <<"a","l","p","h","a">>
beta == <<"b","e","t","a">>
SpringFling == <<"S","p","r","i","n","g"," ","F","l","i","n","g">>
\* A release name that is in no list.
Zeta == <<"Z","e","t","a">>

\* The lists release-names.json is drawn from.
NameLists == { <<Alpha, Beta, Gamma>>, <<alpha, beta, SpringFling>> }

ListNames(list) == {list[i] : i \in 1..Len(list)}

\* ------------------------------------------------------- ordered mappings
\* A JavaScript object used as a hash: a sequence of <<key, value>> pairs in
\* insertion order; assigning an existing key keeps its position.
HasKey(m, k) == \E i \in 1..Len(m) : m[i][1] = k
Get(m, k) == m[CHOOSE i \in 1..Len(m) : m[i][1] = k][2]
Put(m, k, v) ==
  IF HasKey(m, k)
  THEN [i \in 1..Len(m) |-> IF m[i][1] = k THEN <<k, v>> ELSE m[i]]
  ELSE Append(m, <<k, v>>)
\* Object.values(m)
Values(m) == [i \in 1..Len(m) |-> m[i][2]]

\* pkg.tags[t] : undefined when the mapping has no such key
TagOf(tags, t) == IF t \in DOMAIN tags THEN tags[t] ELSE undefined

\* The mapping without any dist-tag: {}
NoTags == [t \in {} |-> undefined]

\* Mutant: the second object replaces the first instead of being merged into it.
SpreadReplace(a, b) == b
\* {...a, ...b} : the fields of b over those of a
Spread(a, b) ==
  [f \in (DOMAIN a) \cup (DOMAIN b) |-> IF f \in DOMAIN b THEN b[f] ELSE a[f]]
\* {...undefined} : no field
NoFields == [f \in {} |-> undefined]

\* ------------------------------------------------------- results, errors
NoError == [kind |-> "none", detail |-> <<>>]
\* An error thrown by the environment (fs, npm, git) rather than by the script.
IOError(what) == [kind |-> what, detail |-> <<>>]

NotRun == [status |-> "none", error |-> NoError, defined |-> FALSE, value |-> <<>>]
Returned(v) == [status |-> "return", error |-> NoError, defined |-> TRUE, value |-> v]
\* return of a value that is undefined
ReturnedUndefined == [status |-> "return", error |-> NoError, defined |-> FALSE, value |-> <<>>]
Thrown(kind, detail) ==
  [status |-> "throw", error |-> [kind |-> kind, detail |-> detail],
   defined |-> FALSE, value |-> <<>>]

\* ------------------------------------------------------------ mergeVersionDetail
RECURSIVE ReduceLocal(_, _)
ReduceLocal(col, currentVersions) ==
  IF currentVersions = <<>> THEN col
  ELSE LET cur == Head(currentVersions)
       IN ReduceLocal(Put(col, cur.name, cur), Tail(currentVersions))

RECURSIVE ReduceRegistry(_, _)
ReduceRegistry(col, registryVersions) ==
  IF registryVersions = <<>> THEN col
  ELSE LET cur == Head(registryVersions)
           old == IF HasKey(col, cur.name) THEN Get(col, cur.name) ELSE NoFields
       IN ReduceRegistry(Put(col, cur.name, Spread(old, cur)), Tail(registryVersions))

mergeVersionDetail(currentVersions, registryVersions) ==
  ReduceRegistry(ReduceLocal(<<>>, currentVersions), registryVersions)

\* ----------------------------------------------------------------- checkVersions
\* Mutant: the version is compared with the latest tag instead of the next tag.
VersionMismatchLatest(pkg) == pkg.version # TagOf(pkg.tags, TagLatest)
\* Mutant: the comparison is lost (the loop never throws).
VersionMismatchNever(pkg) == FALSE
\* pkg.version !== pkg.tags.next
VersionMismatch(pkg) == pkg.version # TagOf(pkg.tags, TagNext)
\* Mutant: a misspelt tag name (pkg.tags.lastest) is read, which is undefined.
DirtyTypo(pkg) == undefined # TagOf(pkg.tags, TagNext)
\* Mutant: a package without a latest tag is not counted as modified.
DirtyDefined(pkg) ==
  /\ TagOf(pkg.tags, TagLatest) # undefined
  /\ TagOf(pkg.tags, TagLatest) # TagOf(pkg.tags, TagNext)
\* pkg.tags.latest !== pkg.tags.next
Dirty(pkg) == TagOf(pkg.tags, TagLatest) # TagOf(pkg.tags, TagNext)

checkVersions(versionDetail) ==
  LET pkgs == Values(versionDetail)
      bad == {i \in 1..Len(pkgs) : VersionMismatch(pkgs[i])}
      dirtyPkgs == SelectSeq(pkgs, Dirty)
  IN IF bad # {}
     THEN LET pkg == pkgs[CHOOSE i \in bad : \A j \in bad : i <= j]
          IN Thrown("NextMismatch",
                    <<[name |-> pkg.name, tagged |-> TagOf(pkg.tags, TagNext),
                       version |-> pkg.version]>>)
     ELSE IF Len(dirtyPkgs) = 0
     THEN Thrown("NothingToRelease", <<>>)
     ELSE Returned(<<>>)

\* --------------------------------------------------------------- nextReleaseName
\* Mutant: the last index at which the name occurs (findLastIndex).
findLastIndex(names, releaseName) ==
  LET hits == {i \in 1..Len(names) : names[i] = releaseName}
  IN IF hits = {} THEN -1 ELSE (CHOOSE i \in hits : \A j \in hits : i >= j) - 1
\* releaseNames.findIndex(name => name === releaseName), 0-based, -1 when absent
findIndex(names, releaseName) ==
  LET hits == {i \in 1..Len(names) : names[i] = releaseName}
  IN IF hits = {} THEN -1 ELSE (CHOOSE i \in hits : \A j \in hits : i <= j) - 1

\* curIndex === releaseNames.length
IsLastGuard(curIndex, names) == curIndex = Len(names)

\* Mutant: only the first package carrying the tag is kept (find, not filter).
DuplicatesFirst(versionDetail, hasNext, nextName) ==
  LET HasTag(pkg) == hasNext /\ nextName \in DOMAIN pkg.tags
      all == SelectSeq(Values(versionDetail), HasTag)
  IN IF all = <<>> THEN <<>> ELSE <<Head(all)>>
\* Object.values(versionDetail).filter(pkg => Object.keys(pkg.tags).indexOf(nextName) !== -1)
\* (no key is the value undefined)
Duplicates(versionDetail, hasNext, nextName) ==
  LET HasTag(pkg) == hasNext /\ nextName \in DOMAIN pkg.tags
  IN SelectSeq(Values(versionDetail), HasTag)

nextReleaseName(versionDetail, names) ==
  IF ~HasKey(versionDetail, versionedPackage)
  THEN Thrown("TypeError", <<>>)
  ELSE
  LET releaseName == Get(versionDetail, versionedPackage).json.release
      curIndex == findIndex(names, releaseName)
      \* releaseNames[curIndex + 1], 0-based: undefined past the end
      hasNext == curIndex + 2 <= Len(names)
      nextName == IF hasNext THEN names[curIndex + 2] ELSE <<>>
      duplicates == Duplicates(versionDetail, hasNext, nextName)
  IN IF curIndex = -1 THEN Thrown("NameNotFound", <<>>)
     ELSE IF IsLastGuard(curIndex, names) THEN Thrown("NameIsLast", <<>>)
     ELSE IF Len(duplicates) > 0
     THEN Thrown("NameAlreadyUsed",
                 [i \in 1..Len(duplicates) |->
                    [name |-> duplicates[i].name,
                     tagged |-> duplicates[i].tags[nextName],
                     version |-> duplicates[i].version]])
     ELSE IF hasNext THEN Returned(nextName) ELSE ReturnedUndefined

\* The exit status of a process that has not exited.
Running == -1

\* ------------------------------------------------------------ the fetch flow
\* The exit statuses curl ends with are 0..MaxExitStatus.
MaxExitStatus == 2

\* package.json of the repository: its name, plain or scoped, as the path
\* segments the name contributes.
FetchNames == {<<"test-ci">>, <<"@bladedancer", "test-ci">>}

destFolder == <<"published">>

\* path.join(destFolder, `${pkg.name}@${pkg.version}.tgz`): the folder the
\* file lies in and the file's name.
target(pkgName, pkgVersion) ==
  [dir |-> destFolder \o SubSeq(pkgName, 1, Len(pkgName) - 1),
   base |-> <<pkgName[Len(pkgName)], "@", pkgVersion, ".tgz">>]

\* path.dirname(target)
targetDir(pkgName, pkgVersion) == target(pkgName, pkgVersion).dir

\* mkdirp: the folder and every ancestor of it
WithAncestors(dir) == {SubSeq(dir, 1, k) : k \in 1..Len(dir)}

\* The folders that can exist under the working directory, each with its
\* ancestors.
FolderSets == {{}, WithAncestors(destFolder), WithAncestors(destFolder \o <<"@bladedancer">>)}

NoSignal == "none"
NullStatus == -1
\* spawnSync's return value: error is set only when the process could not be
\* spawned; status is the exit status, null when spawning failed or a signal
\* ended the process.
NoResult == [error |-> "none", status |-> NullStatus, signal |-> NoSignal]
SpawnError == [error |-> "ENOENT", status |-> NullStatus, signal |-> NoSignal]
Exited(code) == [error |-> "none", status |-> code, signal |-> NoSignal]
Killed == [error |-> "none", status |-> NullStatus, signal |-> "SIGTERM"]

\* The fetch script before it is started.
FetchStart(pkgName, pkgVersion, folders, file) ==
  [pc |-> "start", name |-> pkgName, version |-> pkgVersion, folders |-> folders,
   file |-> file, stdout |-> <<>>, result |-> NoResult, thrown |-> "none",
   exitCode |-> Running]

\* ---------------------------------------------------------------------- state
VARIABLES
  localVersion,    \* packages/<dir>/package.json: version, per package
  manifestRelease, \* the versioned package's manifest on disk: ['api-builder'].release
  registry,        \* the registry: per package, the mapping dist-tag -> version
  releaseNames,    \* release-names.json
  git,             \* the release name in the manifest as staged, committed, pushed
  fetch,           \* the fetch script: its inputs, the published folder, its position
  runs,            \* invocations of the script so far
  pc,              \* where the current invocation stands
  shipOpt,         \* program.ship
  dryRun,          \* program.dryRun
  currentVersions, \* ship: const currentVersions
  lsPending,       \* dist-tag ls calls dispatched and not completed
  lsResult,        \* dist-tag ls calls completed: package -> tags
  versionDetail,   \* ship: const versionDetail
  checked,         \* outcome of checkVersions in this invocation
  named,           \* outcome of nextReleaseName in this invocation
  calls,           \* mutating calls issued by this invocation, in order
  pending,         \* dist-tag add calls dispatched and not completed
  caught,          \* the error the catch of ship received
  exitCode,        \* the process's exit status, -1 while it runs
  stdout           \* the lines main prints

world == <<localVersion, manifestRelease, registry, releaseNames, git, fetch>>
invocation == <<pc, shipOpt, dryRun, currentVersions, lsPending, lsResult, versionDetail,
                checked, named, calls, pending, caught, exitCode, stdout>>
vars == <<world, runs, invocation>>


\* A mutating call: npm dist-tag add <pkg>@<version> <label>, fs.writeFile of
\* the manifest with release <label>, git add, git commit, git push.
Call(op, pkg, version, label) ==
  [op |-> op, pkg |-> pkg, version |-> version, label |-> label]
TagCall(pkg, version, label) == Call("dist-tag add", pkg, version, label)

IsTagCall(c) == c.op = "dist-tag add"

Init ==
  /\ localVersion = [p \in PkgNames |-> 1]
  /\ registry = [p \in PkgNames |-> NoTags]
  /\ releaseNames \in NameLists
  /\ manifestRelease \in ListNames(releaseNames) \cup {Zeta}
  /\ git = [staged |-> manifestRelease, head |-> manifestRelease,
            origin |-> manifestRelease]
  /\ fetch = FetchStart(<<"test-ci">>, 1, {}, "absent")
  /\ runs = 0
  /\ pc = "idle"
  /\ shipOpt = FALSE
  /\ dryRun = FALSE
  /\ currentVersions = <<>>
  /\ lsPending = {}
  /\ lsResult = NoFields
  /\ versionDetail = <<>>
  /\ checked = NotRun
  /\ named = NotRun
  /\ calls = <<>>
  /\ pending = {}
  /\ caught = NoError
  /\ exitCode = Running
  /\ stdout = <<>>

\* ---------------------------------------------------------------- environment
\* No invocation of the script is running (operators do not run two at once).
Quiet == pc = "idle"

\* A developer raises a package's version in its package.json.
Bump(p) ==
  /\ Quiet
  /\ localVersion[p] < MaxVersion
  /\ localVersion' = [localVersion EXCEPT ![p] = @ + 1]
  /\ UNCHANGED <<manifestRelease, registry, releaseNames, fetch, git, runs, invocation>>

\* The build publishes a package's local version under the dist-tag next.
WithTag(tags, t, v) ==
  [k \in (DOMAIN tags) \cup {t} |-> IF k = t THEN v ELSE tags[k]]

Publish(p) ==
  /\ Quiet
  /\ TagOf(registry[p], TagNext) # localVersion[p]
  /\ registry' = [registry EXCEPT ![p] = WithTag(@, TagNext, localVersion[p])]
  /\ UNCHANGED <<localVersion, manifestRelease, releaseNames, fetch, git, runs, invocation>>

\* ----------------------------------------------------------------------- ship
\* Mutant: the handler logs the error and lets the process end normally.
CatchExitsZero(err) ==
  /\ caught' = err
  /\ exitCode' = 0
  /\ pc' = "exited"
\* catch (err) { console.error(...); process.exit(1); }
Catch(err) ==
  /\ caught' = err
  /\ exitCode' = 1
  /\ pc' = "exited"

\* Mutant: ship() is called whether or not --ship was given.
MainShipsAnyway(shipFlag, dry) ==
  /\ Quiet
  /\ runs < MaxRuns
  /\ runs' = runs + 1
  /\ shipOpt' = shipFlag
  /\ dryRun' = dry
  /\ pc' = "getCurrentVersions"
  /\ UNCHANGED <<world, currentVersions, lsPending, lsResult, versionDetail,
                 checked, named, calls, pending, caught, exitCode, stdout>>

\* Main: program.ship ? ship() : console.log('Nothing to do.')
Main(shipFlag, dry) ==
  /\ Quiet
  /\ runs < MaxRuns
  /\ runs' = runs + 1
  /\ shipOpt' = shipFlag
  /\ dryRun' = dry
  /\ IF shipFlag
     THEN /\ pc' = "getCurrentVersions"
          /\ UNCHANGED <<exitCode, stdout>>
     ELSE /\ pc' = "exited"
          /\ exitCode' = 0
          /\ stdout' = <<"Nothing to do.">>
  /\ UNCHANGED <<world, currentVersions, lsPending, lsResult, versionDetail,
                 checked, named, calls, pending, caught>>

\* The process is gone: nothing of the invocation outlives it, and requests
\* still outstanding are lost.
ProcessGone ==
  /\ pc = "exited"
  /\ pc' = "idle"
  /\ shipOpt' = FALSE
  /\ dryRun' = FALSE
  /\ currentVersions' = <<>>
  /\ lsPending' = {}
  /\ lsResult' = NoFields
  /\ versionDetail' = <<>>
  /\ checked' = NotRun
  /\ named' = NotRun
  /\ calls' = <<>>
  /\ pending' = {}
  /\ caught' = NoError
  /\ exitCode' = Running
  /\ stdout' = <<>>
  /\ UNCHANGED <<world, runs>>

\* getCurrentVersions: the record of one directory of packages/
LocalRecord(dir, version, release) ==
  [path |-> dir, name |-> dir, version |-> version,
   json |-> [name |-> dir, version |-> version, release |-> release]]

ReadManifest(dir) ==
  LocalRecord(dir, localVersion[dir],
              IF dir = versionedPackage THEN manifestRelease ELSE <<>>)

getCurrentVersions ==
  /\ pc = "getCurrentVersions"
  /\ currentVersions' = [i \in 1..Len(dirs) |-> ReadManifest(dirs[i])]
  /\ pc' = "npmLoad"
  /\ UNCHANGED <<world, runs, shipOpt, dryRun, lsPending, lsResult, versionDetail, checked,
                 named, calls, pending, caught, exitCode, stdout>>

\* readdir or readFile fails, or JSON.parse throws
getCurrentVersionsFails ==
  /\ pc = "getCurrentVersions"
  /\ Catch(IOError("ReadError"))
  /\ UNCHANGED <<world, runs, shipOpt, dryRun, currentVersions, lsPending, lsResult,
                 versionDetail, checked, named, calls, pending, stdout>>

\* getRegistryVersions: npm.load, then one dist-tag ls per package, dispatched together
getRegistryVersions ==
  /\ pc = "npmLoad"
  /\ lsPending' = {currentVersions[i].name : i \in 1..Len(currentVersions)}
  /\ pc' = "distTagLs"
  /\ UNCHANGED <<world, runs, shipOpt, dryRun, currentVersions, lsResult, versionDetail,
                 checked, named, calls, pending, caught, exitCode, stdout>>

npmLoadFails ==
  /\ pc \in {"npmLoad", "tagLoad"}
  /\ Catch(IOError("RegistryError"))
  /\ UNCHANGED <<world, runs, shipOpt, dryRun, currentVersions, lsPending, lsResult,
                 versionDetail, checked, named, calls, pending, stdout>>

\* A dist-tag ls call completes: tags: distTags ? { ...distTags } : {}
distTagLs(p) ==
  /\ pc = "distTagLs"
  /\ p \in lsPending
  /\ lsPending' = lsPending \ {p}
  /\ lsResult' = [q \in (DOMAIN lsResult) \cup {p} |->
                    IF q = p THEN registry[p] ELSE lsResult[q]]
  /\ pc' = IF lsPending' = {} THEN "reconcile" ELSE "distTagLs"
  /\ UNCHANGED <<world, runs, shipOpt, dryRun, currentVersions, versionDetail, checked,
                 named, calls, pending, caught, exitCode, stdout>>

\* A dist-tag ls call fails: Promise.all rejects, the others stay outstanding.
distTagLsFails(p) ==
  /\ pc = "distTagLs"
  /\ p \in lsPending
  /\ lsPending' = lsPending \ {p}
  /\ Catch(IOError("RegistryError"))
  /\ UNCHANGED <<world, runs, shipOpt, dryRun, currentVersions, lsResult, versionDetail,
                 checked, named, calls, pending, stdout>>

\* What Promise.all(tagDetail) of getRegistryVersions resolves to.
RegistryVersions ==
  [i \in 1..Len(currentVersions) |->
     [name |-> currentVersions[i].name, tags |-> lsResult[currentVersions[i].name]]]

\* Mutant: the dry-run flag is not consulted.
MustPublishAlways == TRUE
\* if (!program.dryRun)
MustPublish == ~dryRun

\* ship, lines 209-215: merge, checkVersions, nextReleaseName, the dry-run test;
\* all synchronous once the registry answers are in.
Reconcile ==
  /\ pc = "reconcile"
  /\ LET detail == mergeVersionDetail(currentVersions, RegistryVersions)
         check == checkVersions(detail)
         name == IF check.status = "return"
                 THEN nextReleaseName(detail, releaseNames) ELSE NotRun
     IN /\ versionDetail' = detail
        /\ checked' = check
        /\ named' = name
        /\ IF check.status = "throw" THEN Catch(check.error)
           ELSE IF name.status = "throw" THEN Catch(name.error)
           ELSE IF ~MustPublish THEN /\ pc' = "exited"
                                    /\ exitCode' = 0
                                    /\ caught' = caught
           ELSE /\ pc' = "tagLoad"
                /\ UNCHANGED <<caught, exitCode>>
  /\ UNCHANGED <<world, runs, shipOpt, dryRun, currentVersions, lsPending, lsResult,
                 calls, pending, stdout>>

\* tagRelease(versionDetail, [ 'latest', nextName ]): the labels, each defined or not
TagLabels(name) ==
  <<[defined |-> TRUE, value |-> TagLatest],
    [defined |-> name.defined, value |-> name.value]>>

\* The loop of tagRelease, flattened: package by package, label by label.
TagLoopItems(detail, labels) ==
  LET pkgs == Values(detail)
      n == Len(labels)
  IN [k \in 1..(Len(pkgs) * n) |->
        [pkg |-> pkgs[((k - 1) \div n) + 1], label |-> labels[((k - 1) % n) + 1]]]

\* The dist-tag add calls the loop dispatches before tag.toLowerCase() throws
\* on an undefined label (all of them when no label is undefined).
TagLoop(detail, labels) ==
  LET items == TagLoopItems(detail, labels)
      undef == {k \in 1..Len(items) : ~items[k].label.defined}
      stop == IF undef = {} THEN Len(items) + 1
              ELSE CHOOSE k \in undef : \A j \in undef : k <= j
  IN [threw |-> undef # {},
      issued |-> [k \in 1..(stop - 1) |->
                    TagCall(items[k].pkg.name, items[k].pkg.version,
                            safeTagOf(items[k].label.value))]]

tagRelease ==
  /\ pc = "tagLoad"
  /\ LET loop == TagLoop(versionDetail, TagLabels(named))
     IN /\ calls' = calls \o loop.issued
        /\ pending' = (Len(calls) + 1)..(Len(calls) + Len(loop.issued))
        /\ IF loop.threw THEN Catch(IOError("TypeError"))
           ELSE /\ pc' = IF Len(loop.issued) = 0 THEN "writeFile" ELSE "tagging"
                /\ UNCHANGED <<caught, exitCode>>
  /\ UNCHANGED <<world, runs, shipOpt, dryRun, currentVersions, lsPending, lsResult,
                 versionDetail, checked, named, stdout>>

\* The registry applies a dist-tag add.
Tagged(reg, c) == [reg EXCEPT ![c.pkg] = WithTag(@, c.label, c.version)]

\* Mutant: the first call to complete resolves the wait (Promise.race).
FirstSettled(outstanding) == TRUE
\* await Promise.all(tagDetail) resolves once no call is outstanding.
AllSettled(outstanding) == outstanding = {}

\* A dist-tag add call completes; with the last one Promise.all resolves.
distTagAdd(i) ==
  /\ pc = "tagging"
  /\ i \in pending
  /\ registry' = Tagged(registry, calls[i])
  /\ pending' = pending \ {i}
  /\ pc' = IF AllSettled(pending') THEN "writeFile" ELSE "tagging"
  /\ UNCHANGED <<localVersion, manifestRelease, releaseNames, fetch, git, runs, shipOpt, dryRun,
                 currentVersions, lsPending, lsResult, versionDetail, checked,
                 named, calls, caught, exitCode, stdout>>

\* A dist-tag add call fails: Promise.all rejects, the others stay outstanding.
distTagAddFails(i) ==
  /\ pc = "tagging"
  /\ i \in pending
  /\ pending' = pending \ {i}
  /\ Catch(IOError("RegistryError"))
  /\ UNCHANGED <<world, runs, shipOpt, dryRun, currentVersions, lsPending, lsResult,
                 versionDetail, checked, named, calls, stdout>>

\* A dist-tag add request that was outstanding when the process exited still
\* reaches the registry (or never does: the action need not happen).
distTagAddAfterExit(i) ==
  /\ pc = "exited"
  /\ i \in pending
  /\ registry' = Tagged(registry, calls[i])
  /\ pending' = pending \ {i}
  /\ UNCHANGED <<localVersion, manifestRelease, releaseNames, fetch, git, runs, pc, shipOpt, dryRun,
                 currentVersions, lsPending, lsResult, versionDetail, checked,
                 named, calls, caught, exitCode, stdout>>

\* updateReleaseName: newPkgJson['api-builder'].release = newName; writeFile
writeFile ==
  /\ pc = "writeFile"
  /\ calls' = Append(calls, Call("writeFile", versionedPackage, undefined, named.value))
  /\ manifestRelease' = named.value
  /\ pc' = "gitAdd"
  /\ UNCHANGED <<localVersion, registry, releaseNames, fetch, git, runs, shipOpt, dryRun,
                 currentVersions, lsPending, lsResult, versionDetail, checked,
                 named, pending, caught, exitCode, stdout>>

writeFileFails ==
  /\ pc = "writeFile"
  /\ calls' = Append(calls, Call("writeFile", versionedPackage, undefined, named.value))
  /\ Catch(IOError("PublishError"))
  /\ UNCHANGED <<world, runs, shipOpt, dryRun, currentVersions, lsPending, lsResult,
                 versionDetail, checked, named, pending, stdout>>

\* One step of git: add, commit, push, in this order.
GitStep(op, at, next, after) ==
  /\ pc = at
  /\ calls' = Append(calls, Call(op, versionedPackage, undefined, named.value))
  /\ git' = after
  /\ pc' = next
  /\ exitCode' = IF next = "exited" THEN 0 ELSE exitCode
  /\ UNCHANGED <<localVersion, manifestRelease, registry, releaseNames, fetch, runs,
                 shipOpt, dryRun, currentVersions, lsPending, lsResult, versionDetail,
                 checked, named, pending, caught, stdout>>

GitStepFails(op, at) ==
  /\ pc = at
  /\ calls' = Append(calls, Call(op, versionedPackage, undefined, named.value))
  /\ Catch(IOError("PublishError"))
  /\ UNCHANGED <<world, runs, shipOpt, dryRun, currentVersions, lsPending, lsResult,
                 versionDetail, checked, named, pending, stdout>>

gitAdd == GitStep("git add", "gitAdd", "gitCommit", [git EXCEPT !.staged = manifestRelease])
gitAddFails == GitStepFails("git add", "gitAdd")
gitCommit == GitStep("git commit", "gitCommit", "gitPush", [git EXCEPT !.head = git.staged])
gitCommitFails == GitStepFails("git commit", "gitCommit")
\* After the push ship returns and the process ends with status 0.
gitPush == GitStep("git push", "gitPush", "exited", [git EXCEPT !.origin = git.head])
gitPushFails == GitStepFails("git push", "gitPush")

Next ==
  \/ \E p \in PkgNames : Bump(p)
  \/ \E p \in PkgNames : Publish(p)
  \/ \E shipFlag \in BOOLEAN, dry \in BOOLEAN : Main(shipFlag, dry)
  \/ ProcessGone
  \/ getCurrentVersions
  \/ getCurrentVersionsFails
  \/ getRegistryVersions
  \/ npmLoadFails
  \/ \E p \in PkgNames : distTagLs(p)
  \/ \E p \in PkgNames : distTagLsFails(p)
  \/ Reconcile
  \/ tagRelease
  \/ \E i \in pending : distTagAdd(i)
  \/ \E i \in pending : distTagAddFails(i)
  \/ \E i \in pending : distTagAddAfterExit(i)
  \/ writeFile
  \/ writeFileFails
  \/ gitAdd
  \/ gitAddFails
  \/ gitCommit
  \/ gitCommitFails
  \/ gitPush
  \/ gitPushFails

Spec == Init /\ [][Next]_vars

\* ------------------------------------------------- the functions on their own
\* mergeVersionDetail, checkVersions and nextReleaseName applied to local
\* records and registry answers drawn from bounded sets.

\* A dist-tag mapping with next, latest and one release tag, each present
\* (a version) or absent (undefined).
MkTags(n, l, e, extra) ==
  [t \in (IF n = undefined THEN {} ELSE {TagNext})
         \cup (IF l = undefined THEN {} ELSE {TagLatest})
         \cup (IF e = undefined THEN {} ELSE {extra}) |->
     IF t = TagNext THEN n ELSE IF t = TagLatest THEN l ELSE e]

MaybeVersion == {undefined} \cup Versions

TagMaps(extra) ==
  {MkTags(n, l, e, extra) : n \in MaybeVersion, l \in MaybeVersion, e \in MaybeVersion}

\* The lists the functions are applied to: those of the ship flow and a list
\* in which a name occurs twice.
FnNameLists == NameLists \cup {<<Beta, Alpha, Beta>>}

FnInit ==
  /\ localVersion \in [PkgNames -> Versions]
  /\ releaseNames \in FnNameLists
  /\ manifestRelease \in ListNames(releaseNames) \cup {Zeta}
  /\ registry \in [PkgNames -> TagMaps(releaseNames[2])]
  /\ git = [staged |-> manifestRelease, head |-> manifestRelease,
            origin |-> manifestRelease]
  /\ fetch = FetchStart(<<"test-ci">>, 1, {}, "absent")
  /\ runs = 0
  /\ pc = "fnInputs"
  /\ shipOpt = FALSE
  /\ dryRun = FALSE
  /\ currentVersions = [i \in 1..Len(dirs) |-> ReadManifest(dirs[i])]
  /\ lsPending = {}
  /\ lsResult = registry
  /\ versionDetail = <<>>
  /\ checked = NotRun
  /\ named = NotRun
  /\ calls = <<>>
  /\ pending = {}
  /\ caught = NoError
  /\ exitCode = Running
  /\ stdout = <<>>

FnMerge ==
  /\ pc = "fnInputs"
  /\ versionDetail' = mergeVersionDetail(currentVersions, RegistryVersions)
  /\ pc' = "fnMerged"
  /\ UNCHANGED <<world, runs, shipOpt, dryRun, currentVersions, lsPending, lsResult,
                 checked, named, calls, pending, caught, exitCode, stdout>>

FnCheckVersions ==
  /\ pc = "fnMerged"
  /\ checked' = checkVersions(versionDetail)
  /\ pc' = "fnChecked"
  /\ UNCHANGED <<world, runs, shipOpt, dryRun, currentVersions, lsPending, lsResult,
                 versionDetail, named, calls, pending, caught, exitCode, stdout>>

\* Mutant: the call takes the head off the release-name list (shift).
CallNextReleaseNameShifts(at, to) ==
  /\ pc = at
  /\ named' = nextReleaseName(versionDetail, releaseNames)
  /\ releaseNames' = Tail(releaseNames)
  /\ pc' = to
  /\ UNCHANGED <<localVersion, manifestRelease, registry, git, fetch, runs, shipOpt, dryRun,
                 currentVersions, lsPending, lsResult, versionDetail, checked, calls,
                 pending, caught, exitCode, stdout>>

\* One call nextReleaseName(versionDetail): the function assigns to nothing
\* but its own constants, so the call leaves its outcome and nothing else.
CallNextReleaseName(at, to) ==
  /\ pc = at
  /\ named' = nextReleaseName(versionDetail, releaseNames)
  /\ pc' = to
  /\ UNCHANGED <<world, runs, shipOpt, dryRun, currentVersions, lsPending, lsResult,
                 versionDetail, checked, calls, pending, caught, exitCode, stdout>>

FnNextReleaseName == CallNextReleaseName("fnChecked", "fnNamed")

\* A second call on the same merged state.
FnNextReleaseNameAgain == CallNextReleaseName("fnNamed", "fnNamedTwice")

FnNext == FnMerge \/ FnCheckVersions \/ FnNextReleaseName \/ FnNextReleaseNameAgain

SpecFn == FnInit /\ [][FnNext]_vars

\* ------------------------------------------------------------ the fetch script
\* The script run on a package name and version, a published folder that
\* exists or not, and a file at the target that exists or not.
FetchInit ==
  /\ \E pkgName \in FetchNames, pkgVersion \in Versions, folders \in FolderSets,
        file \in {"absent", "stale"} :
        /\ file = "stale" => targetDir(pkgName, pkgVersion) \in folders
        /\ fetch = FetchStart(pkgName, pkgVersion, folders, file)
  /\ localVersion = [p \in PkgNames |-> 1]
  /\ registry = [p \in PkgNames |-> NoTags]
  /\ releaseNames = <<Alpha, Beta, Gamma>>
  /\ manifestRelease = Alpha
  /\ git = [staged |-> manifestRelease, head |-> manifestRelease,
            origin |-> manifestRelease]
  /\ runs = 0
  /\ pc = "idle"
  /\ shipOpt = FALSE
  /\ dryRun = FALSE
  /\ currentVersions = <<>>
  /\ lsPending = {}
  /\ lsResult = NoFields
  /\ versionDetail = <<>>
  /\ checked = NotRun
  /\ named = NotRun
  /\ calls = <<>>
  /\ pending = {}
  /\ caught = NoError
  /\ exitCode = Running
  /\ stdout = <<>>

ShipUntouched == UNCHANGED <<localVersion, manifestRelease, registry, releaseNames, git,
                             runs, invocation>>

\* An uncaught exception ends the script with status 1.
FetchThrows(error) == [fetch EXCEPT !.pc = "threw", !.thrown = error, !.exitCode = 1]

\* console.log(`Downloading ${url} to ./${target}`)
FetchLog ==
  /\ fetch.pc = "start"
  /\ fetch' = [fetch EXCEPT !.pc = "logged",
                 !.stdout = <<[url |-> <<fetch.name, fetch.version>>,
                               to |-> target(fetch.name, fetch.version)]>>]
  /\ ShipUntouched

\* if (!fs.existsSync(targetDir)) mkdirSync(targetDir)
FetchMkdir ==
  /\ fetch.pc = "logged"
  /\ LET dir == targetDir(fetch.name, fetch.version)
     IN fetch' = [fetch EXCEPT !.pc = "dirReady",
                    !.folders = IF dir \in @ THEN @ ELSE @ \cup WithAncestors(dir)]
  /\ ShipUntouched

\* mkdirSync throws (the folder cannot be created)
FetchMkdirFails ==
  /\ fetch.pc = "logged"
  /\ targetDir(fetch.name, fetch.version) \notin fetch.folders
  /\ fetch' = FetchThrows("EACCES")
  /\ ShipUntouched

\* spawnSync('curl', ...): curl cannot be spawned
FetchSpawnFails ==
  /\ fetch.pc = "dirReady"
  /\ fetch' = [fetch EXCEPT !.pc = "spawned", !.result = SpawnError]
  /\ ShipUntouched

\* spawnSync('curl', ...): curl runs and exits with a status; status 0 leaves
\* the downloaded file, any other status the file as it was or a part of it.
FetchCurlExits(code) ==
  /\ fetch.pc = "dirReady"
  /\ \E file \in (IF code = 0 THEN {"complete"} ELSE {fetch.file, "partial"}) :
        fetch' = [fetch EXCEPT !.pc = "spawned", !.result = Exited(code), !.file = file]
  /\ ShipUntouched

\* spawnSync('curl', ...): a signal ends curl
FetchCurlKilled ==
  /\ fetch.pc = "dirReady"
  /\ \E file \in {fetch.file, "partial"} :
        fetch' = [fetch EXCEPT !.pc = "spawned", !.result = Killed, !.file = file]
  /\ ShipUntouched

\* if (result.error) throw result.error; the end of the script otherwise
FetchCheck ==
  /\ fetch.pc = "spawned"
  /\ fetch' = IF fetch.result.error # "none" THEN FetchThrows(fetch.result.error)
              ELSE [fetch EXCEPT !.pc = "finished", !.exitCode = 0]
  /\ ShipUntouched

FetchNext ==
  \/ FetchLog
  \/ FetchMkdir
  \/ FetchMkdirFails
  \/ FetchSpawnFails
  \/ \E code \in 0..MaxExitStatus : FetchCurlExits(code)
  \/ FetchCurlKilled
  \/ FetchCheck

SpecFetch == FetchInit /\ [][FetchNext]_vars

\* --------------------------------------------------------------------- claims
\* What the inputs say, read from the disk and the registry themselves.
LocalDiffersFromNext(p) == localVersion[p] # TagOf(registry[p], TagNext)
LatestDiffersFromNext(p) == TagOf(registry[p], TagLatest) # TagOf(registry[p], TagNext)
InRun == pc # "idle"
\* checkVersions has been applied to the merged inputs (SpecFn).
FnCheckedDone == pc \in {"fnChecked", "fnNamed"}

\* C1: in every run of ship no mutating call (dist-tag add, manifest write,
\* git add, commit, push) is issued unless checkVersions and nextReleaseName
\* both returned without throwing in that run; during a run in which some
\* package's local version differs from its registry next tag no call is
\* issued, validation fails, and the registry still holds exactly what the
\* run's queries read.
C1_NoMutationBeforeValidation ==
  /\ (calls # <<>> \/ pending # {}) =>
        /\ checked.status = "return"
        /\ named.status = "return"
  /\ (InRun /\ \E p \in PkgNames : LocalDiffersFromNext(p)) =>
        /\ calls = <<>>
        /\ pending = {}
        /\ \A p \in DOMAIN lsResult : registry[p] = lsResult[p]
        /\ checked.status # "return"
        /\ (pc = "exited" /\ shipOpt /\ caught.kind \notin {"ReadError", "RegistryError"}) =>
              /\ checked.status = "throw"
              /\ exitCode = 1

\* C1 witness: a run ended by the version check, before any tagging.
C1_Witness ==
  /\ pc = "exited"
  /\ checked.status = "throw"
  /\ checked.error.kind = "NextMismatch"
  /\ \E p \in PkgNames : LocalDiffersFromNext(p)
  /\ exitCode = 1

\* C2: whenever at least one package's local version differs from its
\* registry next tag (a package without any tag included), checkVersions
\* throws the version error, and the package its message names is one whose
\* version differs.
C2_MismatchFailsNamingPackage ==
  (FnCheckedDone /\ \E p \in PkgNames : LocalDiffersFromNext(p)) =>
     /\ checked.status = "throw"
     /\ checked.error.kind = "NextMismatch"
     /\ Len(checked.error.detail) = 1
     /\ LET told == checked.error.detail[1]
        IN /\ told.name \in PkgNames
           /\ LocalDiffersFromNext(told.name)
           /\ told.tagged = TagOf(registry[told.name], TagNext)
           /\ told.version = localVersion[told.name]

\* C2 witness: only the second package mismatches, having no tag at all.
C2_Witness ==
  /\ FnCheckedDone
  /\ registry[otherPackage] = NoTags
  /\ ~LocalDiffersFromNext(versionedPackage)
  /\ checked.status = "throw"
  /\ checked.error.detail[1].name = otherPackage

\* C3: when every package's latest tag equals its next tag and no package's
\* version differs from its next tag, checkVersions throws the no-op error.
C3_NothingToReleaseFails ==
  (/\ FnCheckedDone
   /\ \A p \in PkgNames : ~LocalDiffersFromNext(p)
   /\ \A p \in PkgNames : ~LatestDiffersFromNext(p)) =>
     /\ checked.status = "throw"
     /\ checked.error.kind = "NothingToRelease"

\* C3 witness: both packages released already, at different versions.
C3_Witness ==
  /\ FnCheckedDone
  /\ \A p \in PkgNames : ~LocalDiffersFromNext(p) /\ ~LatestDiffersFromNext(p)
  /\ localVersion[versionedPackage] # localVersion[otherPackage]
  /\ checked.error.kind = "NothingToRelease"

\* C4: when every package's local version equals its next tag and at least
\* one package's latest tag differs from its next tag (a package without a
\* latest tag included), checkVersions returns without error.
C4_ValidStatePasses ==
  (/\ FnCheckedDone
   /\ \A p \in PkgNames : ~LocalDiffersFromNext(p)
   /\ \E p \in PkgNames : LatestDiffersFromNext(p)) =>
     /\ checked.status = "return"
     /\ checked.error = NoError

\* C4 witness: the only modified package is one that has no latest tag.
C4_Witness ==
  /\ FnCheckedDone
  /\ \A p \in PkgNames : ~LocalDiffersFromNext(p)
  /\ TagLatest \notin DOMAIN registry[otherPackage]
  /\ ~LatestDiffersFromNext(versionedPackage)
  /\ checked.status = "return"

\* The release name the run read from the versioned package's manifest.
StoredName == Get(versionDetail, versionedPackage).json.release
IsLastName(name) == name = releaseNames[Len(releaseNames)]
\* The entry after the first occurrence of name in the list; name is not the last.
Successor(name) ==
  releaseNames[(CHOOSE i \in 1..Len(releaseNames) :
                  /\ releaseNames[i] = name
                  /\ \A j \in 1..(i - 1) : releaseNames[j] # name) + 1]
HasSuccessor(name) ==
  \E i \in 1..(Len(releaseNames) - 1) :
     /\ releaseNames[i] = name
     /\ \A j \in 1..(i - 1) : releaseNames[j] # name

\* C5 (as claimed): when the stored release name is the last entry of the
\* list, nextReleaseName throws; ship never goes on to tagging.
C5_LastNameFails ==
  (named.status # "none" /\ versionDetail # <<>> /\ IsLastName(StoredName)) =>
     /\ named.status = "throw"
     /\ calls = <<>>

\* C6 (as claimed): a release label that a dist-tag add call of this run
\* carries was not a dist-tag of any package when the run queried the
\* registry: a name an earlier run applied is never applied again.
C6_ReleaseNameUsedOnce ==
  \A i \in 1..Len(calls) :
     (IsTagCall(calls[i]) /\ calls[i].label # TagLatest) =>
        \A p \in DOMAIN lsResult : calls[i].label \notin DOMAIN lsResult[p]

\* C7: when the candidate next name is a dist-tag key of at least one
\* package, nextReleaseName throws the collision error, and the error lists
\* the name and tagged version of every package carrying the tag.
C7_AllCollisionsReported ==
  (pc = "fnNamed" /\ HasSuccessor(manifestRelease)) =>
     LET cand == Successor(manifestRelease)
         carriers == {p \in PkgNames : cand \in DOMAIN registry[p]}
         detail == named.error.detail
     IN carriers # {} =>
          /\ named.status = "throw"
          /\ named.error.kind = "NameAlreadyUsed"
          /\ \A p \in carriers :
               \E k \in 1..Len(detail) :
                  /\ detail[k].name = p
                  /\ detail[k].tagged = registry[p][cand]

\* C7 witness: both packages carry the candidate name, at different versions.
C7_Witness ==
  /\ pc = "fnNamed"
  /\ HasSuccessor(manifestRelease)
  /\ \A p \in PkgNames : Successor(manifestRelease) \in DOMAIN registry[p]
  /\ registry[versionedPackage][Successor(manifestRelease)]
       # registry[otherPackage][Successor(manifestRelease)]
  /\ named.error.kind = "NameAlreadyUsed"
  /\ Len(named.error.detail) = 2

\* C8: in a run with --ship and --dry-run no mutating call is ever issued and
\* the registry and the manifest stay as read; the read-only steps all run:
\* once the reads succeeded checkVersions is applied, a validation error ends
\* the run with status 1, otherwise nextReleaseName is applied and a naming
\* error ends the run with status 1; status 0 only when both returned.
C8_DryRunReadsOnly ==
  (InRun /\ shipOpt /\ dryRun) =>
     /\ calls = <<>>
     /\ pending = {}
     /\ \A p \in DOMAIN lsResult : registry[p] = lsResult[p]
     /\ currentVersions # <<>> => currentVersions[1].json.release = manifestRelease
     /\ (pc = "exited" /\ caught.kind \notin {"ReadError", "RegistryError"}) =>
          /\ checked.status # "none"
          /\ ((\E p \in PkgNames : LocalDiffersFromNext(p)) =>
                (exitCode = 1 /\ caught.kind = "NextMismatch"))
          /\ ((/\ \A p \in PkgNames : ~LocalDiffersFromNext(p)
               /\ \A p \in PkgNames : ~LatestDiffersFromNext(p)) =>
                (exitCode = 1 /\ caught.kind = "NothingToRelease"))
          /\ checked.status = "return" => named.status # "none"
          /\ named.status = "throw" => (exitCode = 1 /\ caught = named.error)
          /\ exitCode = 0 => (checked.status = "return" /\ named.status = "return")
     /\ pc = "exited" => exitCode \in {0, 1}

\* C8 witness: a dry run that passed validation and ended on a naming error.
C8_Witness ==
  /\ pc = "exited"
  /\ shipOpt
  /\ dryRun
  /\ checked.status = "return"
  /\ named.status = "throw"
  /\ exitCode = 1

\* The place of a mutating call in the order tag, write, add, commit, push.
OpRank(op) ==
  CASE op = "dist-tag add" -> 1
    [] op = "writeFile" -> 2
    [] op = "git add" -> 3
    [] op = "git commit" -> 4
    [] op = "git push" -> 5

\* The normalized form of each release name of the lists, written out.
NormalLabel(name) ==
  CASE name = Alpha -> <<"a","l","p","h","a">>
    [] name = Beta -> <<"b","e","t","a">>
    [] name = Gamma -> <<"g","a","m","m","a">>
    [] name = alpha -> <<"a","l","p","h","a">>
    [] name = beta -> <<"b","e","t","a">>
    [] name = SpringFling -> <<"s","p","r","i","n","g","_","f","l","i","n","g">>

\* Every package carries latest and the run's release label at its version.
AllTagged ==
  \A p \in PkgNames :
     /\ TagOf(registry[p], TagLatest) = localVersion[p]
     /\ TagOf(registry[p], NormalLabel(named.value)) = localVersion[p]

\* C9: the mutating calls of a run are issued in the order dist-tag adds,
\* manifest write, git add, git commit, git push, each of the last four at
\* most once and only after its predecessor; once the write is issued no
\* dist-tag add is outstanding and every package carries latest and the new
\* release label at its shipped version, also after the write, the commit or
\* the push has failed.
C9_TagsBeforePublish ==
  /\ \A i, j \in 1..Len(calls) :
        i < j => /\ OpRank(calls[i].op) <= OpRank(calls[j].op)
                 /\ (OpRank(calls[j].op) > 1 =>
                       OpRank(calls[i].op) < OpRank(calls[j].op))
  /\ \A j \in 1..Len(calls) :
        OpRank(calls[j].op) > 2 =>
           \E i \in 1..(j - 1) : OpRank(calls[i].op) = OpRank(calls[j].op) - 1
  /\ (\E j \in 1..Len(calls) : ~IsTagCall(calls[j])) =>
        /\ pending = {}
        /\ named.defined
        /\ Len(calls) >= 2 * Len(dirs) + 1
        /\ AllTagged
  /\ (InRun /\ caught.kind = "PublishError") => AllTagged

\* C9 witness: the push failed after tagging, write, add and commit.
C9_Witness ==
  /\ pc = "exited"
  /\ caught.kind = "PublishError"
  /\ calls # <<>>
  /\ calls[Len(calls)].op = "git push"
  /\ AllTagged

ShippedOk == pc = "exited" /\ shipOpt /\ ~dryRun /\ exitCode = 0

\* C10: after a non-dry-run ship that ended with status 0, for every package
\* a dist-tag add was issued for latest and for the normalized new release
\* name, each at the package's local version; the manifest on disk holds the
\* new release name, which is the list entry right after the name stored
\* before; and the write is followed by git add, commit and push.
C10_ShipPublishesNextName ==
  ShippedOk =>
     /\ HasSuccessor(StoredName)
     /\ LET new == Successor(StoredName)
            n == Len(calls)
        IN /\ \A p \in PkgNames :
                /\ \E i \in 1..n : calls[i] = TagCall(p, localVersion[p], TagLatest)
                /\ \E i \in 1..n : calls[i] = TagCall(p, localVersion[p], NormalLabel(new))
           /\ manifestRelease = new
           /\ n >= 4
           /\ calls[n - 3].op = "writeFile" /\ calls[n - 3].label = new
           /\ calls[n - 2].op = "git add"
           /\ calls[n - 1].op = "git commit"
           /\ calls[n].op = "git push"
           /\ git = [staged |-> new, head |-> new, origin |-> new]

\* C10 witness: a ship that released under the name "Spring Fling".
C10_Witness ==
  /\ ShippedOk
  /\ manifestRelease = SpringFling
  /\ \A p \in PkgNames : TagOf(registry[p], NormalLabel(SpringFling)) = localVersion[p]

\* The steps of a run that follow the registry queries, and those that follow tagging.
AfterQueries == {"reconcile", "tagLoad", "tagging", "writeFile", "gitAdd", "gitCommit", "gitPush"}
AfterTagging == {"writeFile", "gitAdd", "gitCommit", "gitPush"}
Outstanding == pending # {} \/ lsPending # {}

\* C11 (as claimed): no later action of the run, the process exit included,
\* happens while a dispatched dist-tag call is still outstanding.
C11_NothingWhileOutstanding ==
  /\ pc \in AfterQueries => lsPending = {}
  /\ pc \in AfterTagging => pending = {}
  /\ pc = "exited" => ~Outstanding

\* C11 (amended): the run goes on to the reconciliation only when every
\* dist-tag ls call has completed, and to the manifest write, the commit,
\* the push and the exit with status 0 only when every dist-tag add call has
\* completed and is applied; the failure of any one call, or an exception
\* in the dispatch loop, fails the step: the run exits with status 1 at
\* once, with no write and no git call, possibly while other dispatched
\* calls are outstanding.
C11_JoinOnSuccessFailFast ==
  /\ pc \in AfterQueries =>
        /\ lsPending = {}
        /\ DOMAIN lsResult = PkgNames
  /\ (pc \in AfterTagging \/ (pc = "exited" /\ exitCode = 0)) =>
        /\ pending = {}
        /\ \A i \in 1..Len(calls) :
              IsTagCall(calls[i]) =>
                 TagOf(registry[calls[i].pkg], calls[i].label) = calls[i].version
  /\ (pc = "exited" /\ Outstanding) =>
        /\ exitCode = 1
        /\ caught.kind \in {"RegistryError", "TypeError"}
  /\ (pc = "exited" /\ caught.kind \in {"RegistryError", "TypeError"}) =>
        /\ exitCode = 1
        /\ \A i \in 1..Len(calls) : IsTagCall(calls[i])
        /\ manifestRelease = currentVersions[1].json.release

\* C11 witness: a dist-tag add call failed and the process exited while
\* another one was outstanding.
C11_Witness ==
  /\ pc = "exited"
  /\ caught.kind = "RegistryError"
  /\ calls # <<>>
  /\ pending # {}
  /\ exitCode = 1

\* What a run that ended on the error `caught` has and has not done.
StoppedAt(kind) ==
  CASE kind = "ReadError" ->
         /\ currentVersions = <<>>
         /\ lsPending = {} /\ lsResult = NoFields
         /\ versionDetail = <<>> /\ checked = NotRun /\ named = NotRun
         /\ calls = <<>>
    [] kind = "RegistryError" ->
         \/ /\ versionDetail = <<>> /\ checked = NotRun /\ named = NotRun
            /\ calls = <<>>
         \/ /\ named.status = "return"
            /\ \A i \in 1..Len(calls) : IsTagCall(calls[i])
            /\ manifestRelease = StoredName
    [] kind \in {"NextMismatch", "NothingToRelease"} ->
         /\ caught = checked.error
         /\ named = NotRun
         /\ calls = <<>> /\ pending = {}
    [] kind \in {"NameNotFound", "NameIsLast", "NameAlreadyUsed"} ->
         /\ checked.status = "return"
         /\ caught = named.error
         /\ calls = <<>> /\ pending = {}
    [] kind = "TypeError" ->
         /\ \A i \in 1..Len(calls) : IsTagCall(calls[i])
         /\ manifestRelease = StoredName
    [] kind = "PublishError" ->
         /\ calls # <<>>
         /\ LET last == calls[Len(calls)].op
            IN /\ OpRank(last) >= 2
               /\ last = "writeFile" => manifestRelease = StoredName
               /\ last = "git add" => git.staged # manifestRelease
               /\ last = "git commit" => git.head # git.staged
               /\ last = "git push" => git.origin # git.head
    [] OTHER -> FALSE

\* C12: an error raised in any step of ship reaches the one catch and ends
\* the process with status 1 (status 1 occurs in no other way); the steps
\* after the failing one are not executed, and no call is issued twice.
C12_AnyErrorExitsOne ==
  /\ (caught # NoError) <=> (exitCode = 1)
  /\ exitCode = 1 => (pc = "exited" /\ shipOpt /\ StoppedAt(caught.kind))
  /\ (pc = "exited" /\ caught = NoError) => exitCode = 0
  /\ \A i, j \in 1..Len(calls) :
        (i < j /\ calls[i] = calls[j]) => FALSE
  /\ Len(calls) <= 2 * Len(dirs) + 4

\* C12 witness: the commit failed; nothing was committed or pushed.
C12_Witness ==
  /\ pc = "exited"
  /\ caught.kind = "PublishError"
  /\ calls # <<>>
  /\ calls[Len(calls)].op = "git commit"
  /\ git.head # git.staged
  /\ exitCode = 1

IsUpperCase(c) == \E k \in 1..Len(UpperCase) : UpperCase[k] = c

\* C13: every dist-tag add call carries a label without upper-case letter
\* and without whitespace character, and the labels are, package by package,
\* latest and then the normalized form of the new release name
\* ("Spring Fling" is applied as spring_fling).
C13_LabelsNormalized ==
  \A i \in 1..Len(calls) :
     IsTagCall(calls[i]) =>
        /\ \A k \in 1..Len(calls[i].label) :
              /\ ~IsUpperCase(calls[i].label[k])
              /\ calls[i].label[k] \notin WhiteSpace
        /\ calls[i].label = IF i % 2 = 1 THEN TagLatest ELSE NormalLabel(named.value)
        /\ Len(calls[i].label) =
              IF i % 2 = 1 THEN Len(TagLatest) ELSE Len(named.value)

\* C13 witness: the label "Spring Fling" was passed and spring_fling applied.
C13_Witness ==
  /\ named.value = SpringFling
  /\ \E i \in 1..Len(calls) :
        /\ IsTagCall(calls[i])
        /\ calls[i].label = <<"s","p","r","i","n","g","_","f","l","i","n","g">>
        /\ i \notin pending
        /\ TagOf(registry[calls[i].pkg], calls[i].label) = calls[i].version

\* The download failed: curl could not be spawned, or it ended with a
\* non-zero status or by a signal.
DownloadFailed ==
  \/ fetch.result.error # "none"
  \/ fetch.result.signal # NoSignal
  \/ fetch.result.status \notin {0, NullStatus}

\* C14: in the fetch flow every failure of the download process (it cannot
\* be spawned, or it ends unsuccessfully) raises an error that terminates the
\* script; the script never finishes normally after a failed download.
C14_FailedDownloadRaises ==
  /\ fetch.pc = "finished" => ~DownloadFailed
  /\ (fetch.pc \in {"finished", "threw"} /\ DownloadFailed) =>
        (fetch.pc = "threw" /\ fetch.thrown # "none" /\ fetch.exitCode = 1)

\* C15: a run without --ship, with or without --dry-run, prints
\* "Nothing to do.", exits with status 0 and performs no step of the ship
\* flow: it reads no manifest, queries nothing, validates nothing, and issues
\* no dist-tag add, file write or git operation.
C15_NoShipNothingToDo ==
  (InRun /\ ~shipOpt) =>
     /\ pc = "exited"
     /\ exitCode = 0
     /\ stdout = <<"Nothing to do.">>
     /\ caught = NoError
     /\ currentVersions = <<>>
     /\ lsPending = {} /\ lsResult = NoFields
     /\ versionDetail = <<>>
     /\ checked = NotRun /\ named = NotRun
     /\ calls = <<>> /\ pending = {}

\* C15 witness: a run with --dry-run and without --ship has ended, on a
\* registry with something to release.
C15_Witness ==
  /\ pc = "exited" /\ ~shipOpt /\ dryRun
  /\ exitCode = 0
  /\ \E p \in PkgNames : TagNext \in DOMAIN registry[p] /\ LatestDiffersFromNext(p)

\* C16: when the current release name occurs in the list at an index that is
\* not the last, and the entry after its first occurrence is a dist-tag key of
\* no package, nextReleaseName returns exactly that entry.
C16_ReturnsSuccessor ==
  (/\ pc = "fnNamed"
   /\ HasSuccessor(manifestRelease)
   /\ \A p \in PkgNames : Successor(manifestRelease) \notin DOMAIN registry[p]) =>
     named = Returned(Successor(manifestRelease))

\* C16 witness: the current name occurs twice, first at the head of the
\* list, and the entry after the head was returned.
C16_Witness ==
  /\ pc = "fnNamed"
  /\ releaseNames = <<Beta, Alpha, Beta>>
  /\ manifestRelease = Beta
  /\ \A p \in PkgNames : Alpha \notin DOMAIN registry[p]
  /\ named = Returned(Alpha)

\* mergeVersionDetail has been applied to the local records and the registry
\* answers (SpecFn).
FnMergedDone == pc \in {"fnMerged", "fnChecked", "fnNamed"}

\* C17: the mapping mergeVersionDetail returns has one key for every package
\* of the local list and no other; each entry keeps the local path, version
\* and manifest and carries the tags mapping the registry returned for that
\* name, the empty mapping when the package is unpublished.
C17_MergeKeepsEveryPackage ==
  FnMergedDone =>
     /\ Len(versionDetail) = Len(dirs)
     /\ \A p \in PkgNames :
           /\ HasKey(versionDetail, p)
           /\ DOMAIN Get(versionDetail, p) = {"path", "name", "version", "json", "tags"}
           /\ Get(versionDetail, p).path = p
           /\ Get(versionDetail, p).name = p
           /\ Get(versionDetail, p).version = localVersion[p]
           /\ Get(versionDetail, p).json =
                 [name |-> p, version |-> localVersion[p],
                  release |-> IF p = versionedPackage THEN manifestRelease ELSE <<>>]
           /\ Get(versionDetail, p).tags = registry[p]

\* C17 witness: one package is unpublished and merged with the empty tags
\* mapping, the other merged with the tags the registry holds for it.
C17_Witness ==
  /\ pc = "fnMerged"
  /\ registry[versionedPackage] = NoTags
  /\ Get(versionDetail, versionedPackage).tags = NoTags
  /\ DOMAIN registry[otherPackage] = {TagNext, TagLatest}
  /\ Get(versionDetail, otherPackage).tags = registry[otherPackage]
  /\ Get(versionDetail, otherPackage).version = localVersion[otherPackage]

AllAddsSucceeded ==
  /\ caught = NoError
  /\ pending = {}
  /\ Len(calls) = 2 * Len(dirs)
  /\ \A i \in 1..Len(calls) :
        /\ IsTagCall(calls[i])
        /\ TagOf(registry[calls[i].pkg], calls[i].label) = calls[i].version

\* C19: the release field of the versioned package's manifest on disk changes
\* only in a ship run without --dry-run in which every dist-tag add succeeded,
\* and then to the list entry right after its previous value; a dry run, and
\* a run failing while reading, querying, validating, naming or tagging,
\* leaves it as it was.
C19_PointerMovesOnlyAfterTagging ==
  [][manifestRelease' # manifestRelease =>
        /\ shipOpt /\ ~dryRun
        /\ pc = "writeFile"
        /\ checked.status = "return" /\ named.status = "return"
        /\ AllAddsSucceeded
        /\ manifestRelease = StoredName
        /\ HasSuccessor(manifestRelease)
        /\ manifestRelease' = Successor(manifestRelease)]_vars

\* C19 witness: the second run of the script has moved the pointer one entry
\* on, from the second entry of the list to the third.
C19_Witness ==
  /\ runs = 2
  /\ pc = "gitAdd"
  /\ StoredName = releaseNames[2]
  /\ manifestRelease = releaseNames[3]
  /\ AllTagged

\* What the run was answered by the registry: every package queried, and for
\* every package latest equal to next and next equal to the local version.
NothingChangedSinceRelease ==
  /\ InRun /\ shipOpt
  /\ lsPending = {}
  /\ DOMAIN lsResult = PkgNames
  /\ \A p \in PkgNames :
        /\ TagOf(lsResult[p], TagLatest) = TagOf(lsResult[p], TagNext)
        /\ TagOf(lsResult[p], TagNext) = localVersion[p]

\* C20: after a ship without --dry-run has ended with status 0 every
\* package's latest tag equals its next tag (and its local version); a ship
\* run that finds the registry so, local versions and next tags being what
\* they were, fails with the nothing-to-release error and issues no dist-tag
\* add, write, commit or push.
C20_NeverShippedTwice ==
  /\ ShippedOk =>
        \A p \in PkgNames :
           /\ TagOf(registry[p], TagLatest) = TagOf(registry[p], TagNext)
           /\ TagOf(registry[p], TagNext) = localVersion[p]
  /\ NothingChangedSinceRelease =>
        /\ calls = <<>> /\ pending = {}
        /\ registry = lsResult
        /\ pc \in {"distTagLs", "reconcile", "exited"}
        /\ pc = "exited" =>
              /\ checked = Thrown("NothingToRelease", <<>>)
              /\ named = NotRun
              /\ caught.kind = "NothingToRelease"
              /\ exitCode = 1

\* C20 witness: the first run shipped the release the manifest now names (its
\* label is on every package at the local version and the name is pushed);
\* the second run, started on that state, has failed with nothing to release.
C20_Witness ==
  /\ runs = 2
  /\ pc = "exited" /\ shipOpt /\ ~dryRun
  /\ NothingChangedSinceRelease
  /\ caught.kind = "NothingToRelease"
  /\ calls = <<>>
  /\ manifestRelease \in ListNames(releaseNames)
  /\ git.origin = manifestRelease
  /\ \A p \in PkgNames : TagOf(registry[p], NormalLabel(manifestRelease)) = localVersion[p]

=============================================================================
